---- MODULE Spec2Model ----
(***************************************************************************)
(* Model of .github/translation/translate_repo.py: the fence segmenter,    *)
(* the paragraph chunker, the glossary pass, the provider fallback         *)
(* orchestrator, the JSON walker, the work partitioner and the file        *)
(* driver.                                                                 *)
(*                                                                         *)
(* A Python str is a sequence of one-character strings.  The pure helpers  *)
(* of the script are operators; each has a small specification whose Init  *)
(* draws its arguments and whose single action calls it.  The network is   *)
(* the environment: every HTTP request of the orchestrator is answered by  *)
(* a response the environment picks, recorded in `script` in the order the *)
(* requests are issued; the code between two requests is deterministic and *)
(* is replayed by the operators from the script.                           *)
(***************************************************************************)
EXTENDS Integers, Sequences, FiniteSets, TLC

VARIABLES
    pc,       \* position of the modelled call or of main()
    inp,      \* arguments of the pure helper under check
    out,      \* its return value
    cfg,      \* Translator: credentials present and engine_order
    script,   \* responses received so far, in request order
              \* (in SpecTranslate and SpecMain `out` is the call in progress
              \* replayed on them)
    disk,     \* file path -> file content
    orig,     \* disk as it was before the run
    files,    \* main(): target_files followed by json_files
    idx,      \* main(): index of the document being processed
    attempts, \* main(): how often each document was attempted
    failed,   \* main(): documents during which some chunk lost every provider
    caught    \* main(): the exceptions caught, as [doc, at] with at "read", "parse" or "write"

vars == <<pc, inp, out, cfg, script, disk, orig, files, idx, attempts, failed, caught>>

-----------------------------------------------------------------------------
(* Strings *)

NL == "\n"
SP == " "
BT == "^"  \* stands for the backtick, which a TLA+ string cannot hold
TL == "~"

\* all strings over alphabet A of length at most n
Strs(A, n) == UNION {[1..k -> A] : k \in 0..n}

RECURSIVE Join(_)
\* "".join(parts)
Join(parts) == IF parts = <<>> THEN <<>> ELSE Head(parts) \o Join(Tail(parts))

\* s[i:j] of Python with 1-based inclusive bounds
Slice(s, i, j) == IF i > j THEN <<>> ELSE SubSeq(s, i, j)

\* s.startswith(t, i-1)
StartsAt(s, t, i) == i >= 1 /\ i + Len(t) - 1 <= Len(s) /\ SubSeq(s, i, i + Len(t) - 1) = t

\* the least index >= from where t occurs in s, or 0
Find(s, t, from) ==
    LET hits == {i \in from..(Len(s) - Len(t) + 1) : StartsAt(s, t, i)}
    IN IF hits = {} THEN 0 ELSE CHOOSE i \in hits : \A j \in hits : i <= j

\* t in s
Contains(s, t) == Find(s, t, 1) # 0

IsSpace(c) == c \in {SP, NL}

\* not s.strip()
IsBlank(s) == \A i \in 1..Len(s) : IsSpace(s[i])

RECURSIVE SplitOn(_, _)
\* s.split(sep) for a non-empty separator
SplitOn(s, sep) ==
    LET i == Find(s, sep, 1)
    IN IF i = 0 THEN <<s>>
       ELSE <<Slice(s, 1, i - 1)>> \o SplitOn(Slice(s, i + Len(sep), Len(s)), sep)

\* Then(v), with v evaluated once
Once(v, Then(_)) == CHOOSE y \in {Then(x) : x \in {v}} : TRUE

-----------------------------------------------------------------------------
(* split_for_api *)

\* the loop without its flush: every paragraph goes to the one buffer
SplitLoop_no_flush(paras, max_chars, parts, buf, size) ==
    [parts |-> parts, buf |-> buf \o [i \in 1..Len(paras) |-> paras[i] \o <<NL, NL>>]]

RECURSIVE SplitLoop(_, _, _, _, _)
\* the for loop over text.split("\n\n"): parts, buf and size after paragraph i..
SplitLoop(paras, max_chars, parts, buf, size) ==
    IF paras = <<>> THEN [parts |-> parts, buf |-> buf]
    ELSE LET chunk == Head(paras) \o <<NL, NL>>
         IN IF size + Len(chunk) > max_chars /\ buf # <<>>
            THEN SplitLoop(Tail(paras), max_chars, Append(parts, Join(buf)), <<chunk>>, Len(chunk))
            ELSE SplitLoop(Tail(paras), max_chars, parts, Append(buf, chunk), size + Len(chunk))

split_for_api(text, max_chars) ==
    IF Len(text) <= max_chars THEN <<text>>
    ELSE LET With(r) == IF r.buf # <<>> THEN Append(r.parts, Join(r.buf)) ELSE r.parts
             Loop(paras) == SplitLoop(paras, max_chars, <<>>, <<>>, 0)
         IN Once(Once(SplitOn(text, <<NL, NL>>), Loop), With)

-----------------------------------------------------------------------------
(* chunk_code_blocks *)

Fences == {<<BT, BT, BT>>, <<TL, TL, TL>>}

\* the match taken greedily: up to the last same marker after p, not the nearest
FenceMatchEnd_greedy(s, p) ==
    LET ends == {q + 2 : q \in {x \in (p + 3)..Len(s) :
                                  \E f \in Fences : StartsAt(s, f, p) /\ StartsAt(s, f, x)}}
    IN IF ends = {} THEN 0 ELSE CHOOSE e \in ends : \A d \in ends : d <= e

\* the last index of the match of (```.*?```|~~~.*?~~~) that starts at p, or 0:
\* an opening marker at p and the nearest same marker after it
FenceMatchEnd(s, p) ==
    LET ends == {Find(s, f, p + 3) + 2 : f \in {g \in Fences : StartsAt(s, g, p) /\ Find(s, g, p + 3) # 0}}
    IN IF ends = {} THEN 0 ELSE CHOOSE e \in ends : TRUE

RECURSIVE FenceLoop(_, _, _, _)
\* pattern.finditer(s) from position p, with `last` characters already emitted
FenceLoop(s, p, last, parts) ==
    IF p > Len(s)
    THEN IF last < Len(s) THEN Append(parts, [kind |-> "text", s |-> Slice(s, last + 1, Len(s))]) ELSE parts
    ELSE LET e == FenceMatchEnd(s, p)
         IN IF e = 0 THEN FenceLoop(s, p + 1, last, parts)
            ELSE LET withText == IF p - 1 > last
                                 THEN Append(parts, [kind |-> "text", s |-> Slice(s, last + 1, p - 1)])
                                 ELSE parts
                 IN FenceLoop(s, e + 1, e, Append(withText, [kind |-> "code", s |-> Slice(s, p, e)]))

chunk_code_blocks(s) == FenceLoop(s, 1, 0, <<>>)

-----------------------------------------------------------------------------
(* load_glossary, apply_glossary *)

UpperToLower == [A |-> "a", B |-> "b", X |-> "x", Y |-> "y"]

\* c.lower(), for the letters the model uses
Lower(c) == IF c \in DOMAIN UpperToLower THEN UpperToLower[c] ELSE c

\* \w of the re module, for the characters the model uses
IsWord(c) == c \in {"a", "b", "c", "x", "y", "_", "1"} \/ c \in DOMAIN UpperToLower

RECURSIVE LStrip(_)
LStrip(s) == IF s # <<>> /\ IsSpace(Head(s)) THEN LStrip(Tail(s)) ELSE s

RECURSIVE RStrip(_)
RStrip(s) == IF s # <<>> /\ IsSpace(s[Len(s)]) THEN RStrip(Slice(s, 1, Len(s) - 1)) ELSE s

\* s.strip()
Strip(s) == RStrip(LStrip(s))

RECURSIVE ReadRows(_)
\* the loop over csv.reader(f): the (src, dst) pairs kept, in file order
ReadRows(csv) ==
    IF csv = <<>> THEN <<>>
    ELSE LET row == Head(csv)
             src == IF row = <<>> THEN <<>> ELSE Strip(row[1])
             dst == IF Len(row) > 1 THEN Strip(row[2]) ELSE <<>>
         IN IF row # <<>> /\ src # <<>> /\ dst # <<>>
            THEN <<[src |-> src, dst |-> dst]>> \o ReadRows(Tail(csv))
            ELSE ReadRows(Tail(csv))

\* where list.sort puts e among the already sorted rows: after every row whose
\* source term is at least as long (the sort is stable)
InsertByLenDesc(sorted, e) ==
    LET k == Cardinality({i \in 1..Len(sorted) : Len(sorted[i].src) >= Len(e.src)})
    IN SubSeq(sorted, 1, k) \o <<e>> \o SubSeq(sorted, k + 1, Len(sorted))

RECURSIVE SortByLenDesc(_, _)
\* rows.sort(key=lambda x: len(x[0]), reverse=True)
SortByLenDesc(rows, sorted) ==
    IF rows = <<>> THEN sorted
    ELSE SortByLenDesc(Tail(rows), InsertByLenDesc(sorted, Head(rows)))

\* load_glossary without its rows.sort: the rows stay in file order
load_glossary_unsorted(csv) == ReadRows(csv)

load_glossary(csv) == SortByLenDesc(ReadRows(csv), <<>>)

RECURSIVE Replace(_, _, _)
\* s.replace(src, dst) for a non-empty src
Replace(s, src, dst) ==
    LET i == Find(s, src, 1)
    IN IF i = 0 THEN s
       ELSE Slice(s, 1, i - 1) \o dst \o Replace(Slice(s, i + Len(src), Len(s)), src, dst)

\* \b at the gap before s[i]
WordBoundary(s, i) ==
    LET before == i >= 2 /\ i - 1 <= Len(s) /\ IsWord(s[i - 1])
        after  == i >= 1 /\ i <= Len(s) /\ IsWord(s[i])
    IN before # after

\* r'\b' + re.escape(src) + r'\b' with re.IGNORECASE matches s at i
WordMatchAt(s, src, i) ==
    /\ i + Len(src) - 1 <= Len(s)
    /\ \A k \in 1..Len(src) : Lower(s[i + k - 1]) = Lower(src[k])
    /\ WordBoundary(s, i)
    /\ WordBoundary(s, i + Len(src))

RECURSIVE WordSub(_, _, _, _)
\* pattern.sub(dst, s), scanning s from position `from`
WordSub(s, src, dst, from) ==
    LET hits == {i \in from..Len(s) : WordMatchAt(s, src, i)}
    IN IF hits = {} THEN Slice(s, from, Len(s))
       ELSE LET i == CHOOSE h \in hits : \A j \in hits : h <= j
            IN Slice(s, from, i - 1) \o dst \o WordSub(s, src, dst, i + Len(src))

RECURSIVE apply_glossary(_, _)
apply_glossary(s, glossary) ==
    IF glossary = <<>> THEN s
    ELSE LET e == Head(glossary)
             Sub(t) == WordSub(t, e.src, e.dst, 1)
             Rest(t) == apply_glossary(t, Tail(glossary))
         IN Once(Once(Replace(s, e.src, e.dst), Sub), Rest)

-----------------------------------------------------------------------------
(* is_probably_identifier and the inclusion policy of translate_json_value *)

IdentMaxLen == 32

\* [A-Za-z0-9_\-\.\/:], for the characters the model uses
IsIdentChar(c) == c \in {"a", "b", "c", "x", "y", "1", "_", "-", ".", "/", ":"} \/ c \in DOMAIN UpperToLower

\* re.fullmatch(r"[A-Za-z0-9_\-\.\/:]+", s or "")
is_probably_identifier(s) == s # <<>> /\ \A i \in 1..Len(s) : IsIdentChar(s[i])

\* translate_json_value with ignore_keys tested before prefer_keys
do_translate_ignore_first(key, v, cfg_json) ==
    IF key \in cfg_json.ignore_keys THEN FALSE
    ELSE IF key \in cfg_json.prefer_keys THEN TRUE
    ELSE IF cfg_json.mode = "include_except_ignored"
         THEN ~is_probably_identifier(v) \/ Len(v) > IdentMaxLen
    ELSE IF cfg_json.mode = "include_only" THEN key \in cfg_json.include_keys
    ELSE FALSE

\* the value of do_translate that translate_json_value computes for a str v
do_translate(key, v, cfg_json) ==
    IF key \in cfg_json.prefer_keys THEN TRUE
    ELSE IF key \in cfg_json.ignore_keys THEN FALSE
    ELSE IF cfg_json.mode = "include_except_ignored"
         THEN ~is_probably_identifier(v) \/ Len(v) > IdentMaxLen
    ELSE IF cfg_json.mode = "include_only" THEN key \in cfg_json.include_keys
    ELSE FALSE

-----------------------------------------------------------------------------
(* get_file_batch, should_process_file *)

\* get_file_batch without the reduction modulo batch_total
get_file_batch_no_mod(digest, batch_total) ==
    IF batch_total <= 1 THEN 0 ELSE digest

\* digest is int(hashlib.md5(str(p).encode()).hexdigest(), 16)
get_file_batch(digest, batch_total) ==
    IF batch_total <= 1 THEN 0 ELSE digest % batch_total

should_process_file(digest, batch_current, batch_total) ==
    get_file_batch(digest, batch_total) = batch_current

-----------------------------------------------------------------------------
(* Translator: _openai, _deepl, translate                                   *)
(*                                                                          *)
(* A response is [st, body, text]: st is the HTTP status, or 0 when         *)
(* requests.post raised instead of returning; body tells what a 2xx         *)
(* response holds: "text" (the translated string `text`), "null" (the       *)
(* field is there and is null), "other" (the field is there and is neither  *)
(* a string nor null) or "malformed" (r.json() or the indexing raises).     *)
(* A call yields [kind, val, none, n, trace]: kind "return" with  *)
(* the value val (None when `none`), "raise" for an exception, or "wait"    *)
(* when the next response is not in the script yet; n counts the responses  *)
(* consumed and trace lists the posts and sleeps in order.                  *)

Retryable == {429, 500, 502, 503}
OpenaiAttempts == 2
DeeplAttempts == 2
\* max_chars of the call in translate (4000 in the source), scaled to the texts of the model
ApiMaxChars == 4

\* what stands in the model for a value of the response that is not a str
NotAStr == <<"#">>

\* j["choices"][0]["message"]["content"], j["translations"][0]["text"]
BodyValue(r) == IF r.body = "other" THEN NotAStr ELSE r.text

Post(engine, ci, text, r) == [ev |-> "post", engine |-> engine, chunk |-> ci, text |-> text, resp |-> r, ms |-> 0]
Sleep(ci, ms) == [ev |-> "sleep", engine |-> "", chunk |-> ci, text |-> <<>>, resp |-> [st |-> 0, body |-> "", text |-> <<>>], ms |-> ms]

Return(val, none, n, trace) == [kind |-> "return", val |-> val, none |-> none, n |-> n, trace |-> trace]
Raise(n, trace) == [kind |-> "raise", val |-> <<>>, none |-> FALSE, n |-> n, trace |-> trace]
Wait(n, trace) == [kind |-> "wait", val |-> <<>>, none |-> FALSE, n |-> n, trace |-> trace]

\* r.raise_for_status() raises
IsHttpError(r) == r.st >= 400 /\ r.st < 600

RECURSIVE OpenaiLoop(_, _, _, _, _, _)
\* the attempts of _openai from `attempt` on, and the lines after the loop
OpenaiLoop(text, ci, scr, n, attempt, trace) ==
    IF attempt >= OpenaiAttempts
    THEN IF IsHttpError(scr[n]) THEN Raise(n, trace) ELSE Return(<<>>, FALSE, n, trace)
    ELSE IF n >= Len(scr) THEN Wait(n, trace)
    ELSE LET r == scr[n + 1]
             posted == Append(trace, Post("openai", ci, text, r))
         IN IF r.st = 0 THEN Raise(n + 1, posted)
            ELSE IF r.st \in Retryable
                 THEN OpenaiLoop(text, ci, scr, n + 1, attempt + 1,
                                 Append(posted, Sleep(ci, 5000 * (attempt + 1))))
            ELSE IF IsHttpError(r) \/ r.body = "malformed" THEN Raise(n + 1, posted)
            ELSE Return(BodyValue(r), r.body = "null", n + 1, posted)

\* _openai with a single attempt: a retryable status is not retried
Translator_openai_one_attempt(text, ci, scr, n, trace) ==
    OpenaiLoop(text, ci, scr, n, OpenaiAttempts - 1, trace)

\* _openai with one attempt more than range(2) gives
Translator_openai_extra_attempt(text, ci, scr, n, trace) == OpenaiLoop(text, ci, scr, n, -1, trace)

Translator_openai(text, ci, scr, n, trace) == OpenaiLoop(text, ci, scr, n, 0, trace)

RECURSIVE DeeplLoop(_, _, _, _, _, _)
\* the attempts of _deepl from `attempt` on, and the lines after the loop
DeeplLoop(text, ci, scr, n, attempt, trace) ==
    IF attempt >= DeeplAttempts
    THEN IF IsHttpError(scr[n]) THEN Raise(n, trace) ELSE Return(<<>>, FALSE, n, trace)
    ELSE IF n >= Len(scr) THEN Wait(n, trace)
    ELSE LET r == scr[n + 1]
             posted == Append(trace, Post("deepl", ci, text, r))
         IN IF r.st = 0 THEN Raise(n + 1, posted)
            ELSE IF r.st = 456 THEN Raise(n + 1, posted)
            ELSE IF r.st \in Retryable
                 THEN DeeplLoop(text, ci, scr, n + 1, attempt + 1,
                                Append(posted, Sleep(ci, 2000 * (attempt + 1))))
            ELSE IF IsHttpError(r) \/ r.body = "malformed" THEN Raise(n + 1, posted)
            ELSE Return(BodyValue(r), r.body = "null", n + 1, posted)

RECURSIVE DeeplLoopRetry456(_, _, _, _, _, _)
\* _deepl with 456 handled as one more retryable status
DeeplLoopRetry456(text, ci, scr, n, attempt, trace) ==
    IF attempt >= DeeplAttempts
    THEN IF IsHttpError(scr[n]) THEN Raise(n, trace) ELSE Return(<<>>, FALSE, n, trace)
    ELSE IF n >= Len(scr) THEN Wait(n, trace)
    ELSE LET r == scr[n + 1]
             posted == Append(trace, Post("deepl", ci, text, r))
         IN IF r.st = 0 THEN Raise(n + 1, posted)
            ELSE IF r.st \in Retryable \cup {456}
                 THEN DeeplLoopRetry456(text, ci, scr, n + 1, attempt + 1,
                                        Append(posted, Sleep(ci, 2000 * (attempt + 1))))
            ELSE IF IsHttpError(r) \/ r.body = "malformed" THEN Raise(n + 1, posted)
            ELSE Return(BodyValue(r), r.body = "null", n + 1, posted)

Translator_deepl_retry456(text, ci, scr, n, trace) == DeeplLoopRetry456(text, ci, scr, n, 0, trace)

Translator_deepl(text, ci, scr, n, trace) == DeeplLoop(text, ci, scr, n, 0, trace)

\* every credential taken as present
KeyPresent_always(c, engine) == TRUE

\* self.openai_key / self.deepl_key is not empty
KeyPresent(c, engine) == IF engine = "openai" THEN c.openai_key ELSE c.deepl_key

RECURSIVE EngineLoop(_, _, _, _, _, _, _)
\* for engine in self.engine_order, from the k-th engine on: "return" with
\* `none` set is translated = None after the loop
EngineLoop(ch, ci, c, k, scr, n, trace) ==
    IF k > Len(c.engine_order) THEN Return(<<>>, TRUE, n, trace)
    ELSE LET engine == c.engine_order[k]
             With(r) == IF r.kind = "raise"
                           THEN EngineLoop(ch, ci, c, k + 1, scr, r.n, r.trace)
                           ELSE r
         IN IF engine = "openai" /\ KeyPresent(c, engine) THEN Once(Translator_openai(ch, ci, scr, n, trace), With)
            ELSE IF engine = "deepl" /\ KeyPresent(c, engine) THEN Once(Translator_deepl(ch, ci, scr, n, trace), With)
            ELSE EngineLoop(ch, ci, c, k + 1, scr, n, trace)

RECURSIVE ChunkLoop(_, _, _, _, _, _, _, _)
\* the loop that returns what it has translated so far when a chunk loses
\* every engine
ChunkLoop_partial(text, chunks, i, outp, c, scr, n, trace) ==
    IF i > Len(chunks)
    THEN IF \E k \in 1..Len(outp) : outp[k] = NotAStr
         THEN [kind |-> "raise", val |-> <<>>, n |-> n, trace |-> trace, failed |-> 0]
         ELSE [kind |-> "return", val |-> Join(outp), n |-> n, trace |-> trace, failed |-> 0]
    ELSE LET With(r) ==
                 IF r.kind = "wait"
                 THEN [kind |-> "wait", val |-> <<>>, n |-> r.n, trace |-> r.trace, failed |-> 0]
                 ELSE IF r.none
                 THEN [kind |-> "return", val |-> Join(outp), n |-> r.n, trace |-> r.trace, failed |-> i]
                 ELSE ChunkLoop(text, chunks, i + 1, Append(outp, r.val), c, scr, r.n,
                                IF i < Len(chunks) THEN Append(r.trace, Sleep(i, 500)) ELSE r.trace)
         IN Once(EngineLoop(chunks[i], i, c, 1, scr, n, trace), With)

\* for i, ch in enumerate(chunks), from chunk i on, and "".join(out), which
\* raises TypeError on an item that is not a str: the result carries
\* `failed`, the number of the chunk that lost every engine (0: none)
ChunkLoop(text, chunks, i, outp, c, scr, n, trace) ==
    IF i > Len(chunks)
    THEN IF \E k \in 1..Len(outp) : outp[k] = NotAStr
         THEN [kind |-> "raise", val |-> <<>>, n |-> n, trace |-> trace, failed |-> 0]
         ELSE [kind |-> "return", val |-> Join(outp), n |-> n, trace |-> trace, failed |-> 0]
    ELSE LET With(r) ==
                 IF r.kind = "wait"
                 THEN [kind |-> "wait", val |-> <<>>, n |-> r.n, trace |-> r.trace, failed |-> 0]
                 ELSE IF r.none
                 THEN [kind |-> "return", val |-> text, n |-> r.n, trace |-> r.trace, failed |-> i]
                 ELSE ChunkLoop(text, chunks, i + 1, Append(outp, r.val), c, scr, r.n,
                                IF i < Len(chunks) THEN Append(r.trace, Sleep(i, 500)) ELSE r.trace)
         IN Once(EngineLoop(chunks[i], i, c, 1, scr, n, trace), With)

\* Translator.translate(text, to_lang) with the responses scr[n+1], scr[n+2], ...
Translator_translate(text, c, scr, n, trace) ==
    IF IsBlank(text)
    THEN [kind |-> "return", val |-> text, n |-> n, trace |-> trace, failed |-> 0]
    ELSE LET Loop(chunks) == ChunkLoop(text, chunks, 1, <<>>, c, scr, n, trace)
         IN Once(split_for_api(text, ApiMaxChars), Loop)

-----------------------------------------------------------------------------
(* translate_plain_file, translate_json_value, translate_json_file          *)
(*                                                                          *)
(* A call yields [kind, val, n, trace, failed]: kind "return", "wait" or    *)
(* "raise" as above (no code here catches an exception of translate), val   *)
(* the value built, failed whether some chunk lost every engine.            *)
(* With(r) is what the code does with the result r of the call it makes.    *)
(* A JSON value is [t, s, keys, items]: t is "str" (the string s), "arr"    *)
(* (the elements items), "obj" (the members items under the keys keys, in   *)
(* insertion order) or "other" (a number, true, false or null, named by s). *)

JStr(str) == [t |-> "str", s |-> str, keys |-> <<>>, items |-> <<>>]
JOther(name) == [t |-> "other", s |-> name, keys |-> <<>>, items |-> <<>>]
JArr(items) == [t |-> "arr", s |-> <<>>, keys |-> <<>>, items |-> items]
JObj(keys, items) == [t |-> "obj", s |-> <<>>, keys |-> keys, items |-> items]

\* no segment taken for code: every segment goes to translate
IsCodeSegment_never(seg) == FALSE

\* if kind == "code"
IsCodeSegment(seg) == seg.kind = "code"

RECURSIVE SegmentLoop_reversed(_, _, _, _, _, _, _, _, _)
\* the loop with every part put before the parts already built
SegmentLoop_reversed(segs, i, parts, c, glossary, scr, n, trace, failedAny) ==
    IF i > Len(segs)
    THEN [kind |-> "return", val |-> Join(parts), n |-> n, trace |-> trace, failed |-> failedAny]
    ELSE IF IsCodeSegment(segs[i])
    THEN SegmentLoop_reversed(segs, i + 1, <<segs[i].s>> \o parts, c, glossary, scr, n, trace, failedAny)
    ELSE LET With(r) ==
                 IF r.kind # "return"
                 THEN [kind |-> r.kind, val |-> <<>>, n |-> r.n, trace |-> r.trace, failed |-> failedAny]
                 ELSE SegmentLoop_reversed(segs, i + 1, <<apply_glossary(r.val, glossary)>> \o parts,
                                           c, glossary, scr, r.n, r.trace, failedAny \/ r.failed # 0)
         IN Once(Translator_translate(segs[i].s, c, scr, n, trace), With)

RECURSIVE SegmentLoop(_, _, _, _, _, _, _, _, _)
\* for kind, chunk in chunk_code_blocks(s), from segment i on (the loop of
\* translate_plain_file, and the same loop of translate_json_value)
SegmentLoop(segs, i, parts, c, glossary, scr, n, trace, failedAny) ==
    IF i > Len(segs)
    THEN [kind |-> "return", val |-> Join(parts), n |-> n, trace |-> trace, failed |-> failedAny]
    ELSE IF IsCodeSegment(segs[i])
    THEN SegmentLoop(segs, i + 1, Append(parts, segs[i].s), c, glossary, scr, n, trace, failedAny)
    ELSE LET With(r) ==
                 IF r.kind # "return"
                 THEN [kind |-> r.kind, val |-> <<>>, n |-> r.n, trace |-> r.trace, failed |-> failedAny]
                 ELSE SegmentLoop(segs, i + 1, Append(parts, apply_glossary(r.val, glossary)),
                                  c, glossary, scr, r.n, r.trace, failedAny \/ r.failed # 0)
         IN Once(Translator_translate(segs[i].s, c, scr, n, trace), With)

\* translate_plain_file up to its write_text: val is the text to write
translate_plain_file(s, c, glossary, scr) ==
    LET Loop(segs) == SegmentLoop(segs, 1, <<>>, c, glossary, scr, 0, <<>>, FALSE)
    IN Once(chunk_code_blocks(s), Loop)

\* the key handed down with a dict's member too, as with a list's element
ItemKey_inherited(v, i, key) == key

\* a list's element decided with the empty key, not with the key of the list
ItemKey_root(v, i, key) == IF v.t = "obj" THEN v.keys[i] ELSE <<>>

\* the key translate_json_value is called with for element i of v: the
\* member's key k for a dict, the key of the list itself for a list
ItemKey(v, i, key) == IF v.t = "obj" THEN v.keys[i] ELSE key

RECURSIVE translate_json_value(_, _, _, _, _, _, _, _)
RECURSIVE ItemsLoop(_, _, _, _, _, _, _, _, _, _, _)

\* the list comprehension over a list v and the loop over v.items() of a
\* dict v, from element i on: a list hands its own key down, a dict the
\* member's key
ItemsLoop(v, i, done, key, c, cfg_json, glossary, scr, n, trace, failedAny) ==
    IF i > Len(v.items)
    THEN [kind |-> "return", val |-> [v EXCEPT !.items = done], n |-> n, trace |-> trace,
          failed |-> failedAny]
    ELSE LET With(r) ==
                 IF r.kind # "return" THEN r
                 ELSE ItemsLoop(v, i + 1, Append(done, r.val), key, c, cfg_json, glossary, scr,
                                r.n, r.trace, failedAny \/ r.failed)
         IN Once(translate_json_value(v.items[i], ItemKey(v, i, key),
                                      c, cfg_json, glossary, scr, n, trace), With)

translate_json_value(v, key, c, cfg_json, glossary, scr, n, trace) ==
    IF v.t = "str"
    THEN IF do_translate(key, v.s, cfg_json)
         THEN LET With(r) == IF r.kind # "return" THEN [r EXCEPT !.val = v]
                                                   ELSE [r EXCEPT !.val = JStr(r.val)]
                  Loop(segs) == SegmentLoop(segs, 1, <<>>, c, glossary, scr, n, trace, FALSE)
              IN Once(Once(chunk_code_blocks(v.s), Loop), With)
         ELSE [kind |-> "return", val |-> v, n |-> n, trace |-> trace, failed |-> FALSE]
    ELSE IF v.t \in {"arr", "obj"}
    THEN ItemsLoop(v, 1, <<>>, key, c, cfg_json, glossary, scr, n, trace, FALSE)
    ELSE [kind |-> "return", val |-> v, n |-> n, trace |-> trace, failed |-> FALSE]

\* A file's content is [fmt, data]: a text file holds the string data
\* (fmt "text"); a JSON file holds the serialisation of the value data, as
\* json.dumps(indent=2) plus a newline writes it ("indent2") or laid out
\* otherwise ("compact"), or text that json.loads rejects ("invalid").
TextFile(str) == [fmt |-> "text", data |-> str]
JsonFile(fmt, v) == [fmt |-> fmt, data |-> v]

\* json.dumps(obj2, ensure_ascii=False, indent=2) + "\n"
json_dumps(v) == JsonFile("indent2", v)

\* translate_json_file with a json.loads that takes any content
translate_json_file_lenient(content, c, cfg_json, glossary, scr) ==
    LET With(r) == IF r.kind # "return" THEN [r EXCEPT !.val = content]
                                      ELSE [r EXCEPT !.val = json_dumps(r.val)]
    IN Once(translate_json_value(content.data, <<>>, c, cfg_json, glossary, scr, 0, <<>>), With)

\* translate_json_file up to its write_text: val is the content to write;
\* json.loads raises on a content it cannot parse
translate_json_file(content, c, cfg_json, glossary, scr) ==
    IF content.fmt = "invalid"
    THEN [kind |-> "raise", val |-> content, n |-> 0, trace |-> <<>>, failed |-> FALSE]
    ELSE LET With(r) == IF r.kind # "return" THEN [r EXCEPT !.val = content]
                                              ELSE [r EXCEPT !.val = json_dumps(r.val)]
         IN Once(translate_json_value(content.data, <<>>, c, cfg_json, glossary, scr, 0, <<>>), With)

\* translate_plain_file or translate_json_file on a file's content
FileCall(kind, content, c, cfg_json, glossary, scr) ==
    IF kind = "text"
    THEN LET With(r) == IF r.kind # "return" THEN [r EXCEPT !.val = content]
                                              ELSE [r EXCEPT !.val = TextFile(r.val)]
         IN Once(translate_plain_file(content.data, c, glossary, scr), With)
    ELSE translate_json_file(content, c, cfg_json, glossary, scr)

\* the exception leaves main()
AfterDocException_propagates == "crashed"

\* except Exception as e: ... continue
AfterDocException == "next"

-----------------------------------------------------------------------------
(* State shared by the specifications; each one uses a part of it *)

NoCfg == [openai_key |-> FALSE, deepl_key |-> FALSE, engine_order |-> <<>>]

IdleMain ==
    /\ cfg = NoCfg
    /\ script = <<>>
    /\ disk = <<>>
    /\ orig = <<>>
    /\ files = <<>>
    /\ idx = 0
    /\ attempts = <<>>
    /\ failed = {}
    /\ caught = {}

mainVars == <<cfg, script, disk, orig, files, idx, attempts, failed, caught>>

-----------------------------------------------------------------------------
(* Specification of split_for_api on every text and limit within the bounds *)

MaxSplitLen == 6
MaxSplitChars == 5
SplitAlphabet == {"a", NL}

SplitInit ==
    /\ pc = "call"
    /\ inp \in [text : Strs(SplitAlphabet, MaxSplitLen), max_chars : 1..MaxSplitChars]
    /\ out = <<>>
    /\ IdleMain

SplitCall ==
    /\ pc = "call"
    /\ out' = split_for_api(inp.text, inp.max_chars)
    /\ pc' = "done"
    /\ UNCHANGED <<inp, mainVars>>

SpecSplit == SplitInit /\ [][SplitCall]_vars

\* C5: concatenating the chunks split_for_api returns, in order, reproduces
\* the input text exactly, whether the text fits one chunk or is split.
C5_ConcatReproducesText == pc = "done" => Join(out) = inp.text

-----------------------------------------------------------------------------
(* Specification of the glossary: a file of two entries, one source term a  *)
(* proper substring of the other, in either file order, loaded and applied  *)

MaxTermLen == 3
MaxGlossTextLen == 3
TermAlphabet == {"a", "b"}
GlossTextAlphabet == {"a", "b", "A", SP}
LongTarget == <<"X">>
ShortTarget == <<"Y">>

\* (longer, shorter) source terms, the shorter a proper substring of the longer
TermPairs ==
    {p \in Strs(TermAlphabet, MaxTermLen) \X Strs(TermAlphabet, MaxTermLen) :
        /\ p[2] # <<>>
        /\ Len(p[2]) < Len(p[1])
        /\ Contains(p[1], p[2])}

GlossaryInit ==
    /\ pc = "load"
    /\ \E p \in TermPairs, longFirst \in BOOLEAN, text \in Strs(GlossTextAlphabet, MaxGlossTextLen) :
          inp = [long  |-> p[1],
                 short |-> p[2],
                 csv   |-> IF longFirst
                           THEN <<(<<p[1], LongTarget>>), (<<p[2], ShortTarget>>)>>
                           ELSE <<(<<p[2], ShortTarget>>), (<<p[1], LongTarget>>)>>,
                 text  |-> text]
    /\ out = [glossary |-> <<>>, text |-> <<>>]
    /\ IdleMain

\* main(): glossary = load_glossary(GLOSSARY_PATH)
GlossaryLoad ==
    /\ pc = "load"
    /\ out' = [out EXCEPT !.glossary = load_glossary(inp.csv)]
    /\ pc' = "apply"
    /\ UNCHANGED <<inp, mainVars>>

\* jp = apply_glossary(jp, glossary)
GlossaryApply ==
    /\ pc = "apply"
    /\ out' = [out EXCEPT !.text = apply_glossary(inp.text, out.glossary)]
    /\ pc' = "done"
    /\ UNCHANGED <<inp, mainVars>>

GlossaryNext == GlossaryLoad \/ GlossaryApply

SpecGlossary == GlossaryInit /\ [][GlossaryNext]_vars

RECURSIVE CountOcc(_, _)
\* the number of occurrences of t in s, counted left to right without overlap
CountOcc(s, t) ==
    LET i == Find(s, t, 1)
    IN IF i = 0 THEN 0 ELSE 1 + CountOcc(Slice(s, i + Len(t), Len(s)), t)

\* C7 (targets that hold no source term, as in the claim's example):
\* whatever the order of the entries in the glossary file, the loaded
\* glossary is ordered by descending source-term length, and once it is
\* applied every occurrence of the longer term in the text has become the
\* longer term's target; the text never holds the shorter term's target
\* followed by the residue of the longer term.
C7_LongerTermFirst ==
    /\ pc \in {"apply", "done"} =>
          /\ Len(out.glossary) = 2
          /\ \A i, j \in 1..Len(out.glossary) :
                i < j => Len(out.glossary[i].src) >= Len(out.glossary[j].src)
          /\ out.glossary[1] = [src |-> inp.long, dst |-> LongTarget]
    /\ pc = "done" =>
          /\ CountOcc(out.text, LongTarget) >= CountOcc(inp.text, inp.long)
          /\ ~Contains(out.text, Replace(inp.long, inp.short, ShortTarget))

\* the shorter term comes first in the file, the text holds the longer term,
\* and the result holds the longer term's target
C7_Witness ==
    /\ pc = "done"
    /\ inp.csv[1][1] = inp.short
    /\ Contains(inp.text, inp.long)
    /\ Contains(out.text, LongTarget)
    /\ ~Contains(out.text, ShortTarget)

-----------------------------------------------------------------------------
(* Specification of the inclusion policy: every combination of memberships  *)
(* of the key in the three key sets, both modes, and values on both sides   *)
(* of the identifier test and of the length threshold                       *)

DecideKeys == {<<"k">>, <<"i", "d">>}
DecideModes == {"include_except_ignored", "include_only"}
DecideLens == {0, 1, IdentMaxLen - 1, IdentMaxLen, IdentMaxLen + 1}

\* values made of identifier characters only, and values ending in a space
DecideValues ==
    {[i \in 1..n |-> "a"] : n \in DecideLens}
        \cup {[i \in 1..n |-> IF i = n THEN SP ELSE "a"] : n \in DecideLens \ {0}}

DecideInit ==
    /\ pc = "call"
    /\ inp \in [key : DecideKeys,
                v : DecideValues,
                cfg_json : [mode : DecideModes,
                            ignore_keys : SUBSET DecideKeys,
                            prefer_keys : SUBSET DecideKeys,
                            include_keys : SUBSET DecideKeys]]
    /\ out = FALSE
    /\ IdleMain

DecideCall ==
    /\ pc = "call"
    /\ out' = do_translate(inp.key, inp.v, inp.cfg_json)
    /\ pc' = "done"
    /\ UNCHANGED <<inp, mainVars>>

SpecDecide == DecideInit /\ [][DecideCall]_vars

\* the reference rule of the inclusion policy
DecisionRule(K, V, P) ==
    CASE K \in P.prefer_keys -> TRUE
      [] K \notin P.prefer_keys /\ K \in P.ignore_keys -> FALSE
      [] K \notin P.prefer_keys /\ K \notin P.ignore_keys /\ P.mode = "include_except_ignored" ->
            ~(is_probably_identifier(V) /\ Len(V) <= 32)
      [] K \notin P.prefer_keys /\ K \notin P.ignore_keys /\ P.mode = "include_only" ->
            K \in P.include_keys

\* C9: the decision of the JSON walker for key K, value V and an inclusion
\* policy equals the reference rule: prefer_keys first (it wins over
\* ignore_keys), then ignore_keys, then by mode: include_except_ignored
\* translates unless V is identifier-like and at most 32 long, include_only
\* translates iff K is in include_keys.
C9_DecisionMatchesRule ==
    pc = "done" => out = DecisionRule(inp.key, inp.v, inp.cfg_json)

\* K is in prefer_keys and in ignore_keys, V is a short identifier, and the
\* walker decided to translate
C9_Witness ==
    /\ pc = "done"
    /\ inp.key \in inp.cfg_json.prefer_keys \cap inp.cfg_json.ignore_keys
    /\ is_probably_identifier(inp.v)
    /\ Len(inp.v) <= 32
    /\ out = TRUE

-----------------------------------------------------------------------------
(* Specification of the work partitioner: batch_total independent runs of   *)
(* main(), one per batch_current, each walking the same files and keeping   *)
(* those should_process_file accepts; the runs interleave freely            *)

MaxFiles == 3
MaxBatchTotal == 3
MaxDigest == 4

BatchInit ==
    /\ pc = "run"
    /\ \E n \in 1..MaxFiles, total \in 1..MaxBatchTotal :
          /\ inp \in [paths : {1..n}, batch_total : {total}, md5 : [1..n -> 0..MaxDigest]]
          /\ out = [b \in 0..(total - 1) |-> [pos |-> 0, target_files |-> {}]]
    /\ IdleMain

\* the run with batch_current = b looks at its next file
BatchVisit(b) ==
    /\ pc = "run"
    /\ out[b].pos < Cardinality(inp.paths)
    /\ LET p == out[b].pos + 1
       IN out' = [out EXCEPT ![b] =
                    [pos |-> p,
                     target_files |-> IF should_process_file(inp.md5[p], b, inp.batch_total)
                                      THEN out[b].target_files \cup {p}
                                      ELSE out[b].target_files]]
    /\ UNCHANGED <<pc, inp, mainVars>>

BatchNext == \E b \in DOMAIN out : BatchVisit(b)

SpecBatch == BatchInit /\ [][BatchNext]_vars

BatchAllDone == pc = "run" /\ \A b \in DOMAIN out : out[b].pos = Cardinality(inp.paths)

\* C4: for a fixed file set and batch_total = N >= 1, the sets of files the
\* runs batch_current = 0..N-1 select are pairwise disjoint at every moment
\* of every interleaving, and once all runs have walked the files their
\* union is the whole file set.
C4_BatchesPartitionFiles ==
    pc = "run" =>
        /\ \A b, c \in DOMAIN out : b # c => out[b].target_files \cap out[c].target_files = {}
        /\ BatchAllDone => UNION {out[b].target_files : b \in DOMAIN out} = inp.paths

\* three runs are done and two of them selected files
C4_Witness ==
    /\ BatchAllDone
    /\ inp.batch_total = 3
    /\ Cardinality({b \in DOMAIN out : out[b].target_files # {}}) >= 2
    /\ \E p \in inp.paths : inp.md5[p] >= inp.batch_total

-----------------------------------------------------------------------------
(* Specification of Translator.translate on one text span: the providers    *)
(* answer each request as they please                                       *)

EnvStatuses == {429, 503, 456, 404}
RespTexts == {<<"j">>, <<"k">>}

Responses ==
    {[st |-> 200, body |-> "text", text |-> t] : t \in RespTexts}
        \cup {[st |-> 200, body |-> b, text |-> <<>>] : b \in {"null", "other", "malformed"}}
        \cup {[st |-> st, body |-> "", text |-> <<>>] : st \in EnvStatuses \cup {0}}

SpanTexts == {<<SP>>, <<"a">>, <<"a", "a", NL, NL, "b", "b">>}

TranslateCfgs ==
    [openai_key : BOOLEAN, deepl_key : BOOLEAN,
     engine_order : {<<"openai", "deepl">>, <<"deepl", "openai">>, <<"openai">>}]

\* translate(text) replayed on the responses scr
Call(text, c, scr) == Translator_translate(text, c, scr, 0, <<>>)

\* the call runs up to its first request, or returns without one
TranslateInit ==
    /\ pc = "translate"
    /\ inp \in [text : SpanTexts]
    /\ cfg \in TranslateCfgs
    /\ script = <<>>
    /\ out = Call(inp.text, cfg, script)
    /\ disk = <<>> /\ orig = <<>> /\ files = <<>> /\ idx = 0
    /\ attempts = <<>> /\ failed = {} /\ caught = {}

\* requests.post returns (or raises): the provider answers the request
\* translate is blocked on, and translate runs on to its next request or to
\* its return statement
TranslateRespond ==
    /\ pc = "translate"
    /\ out.kind = "wait"
    /\ \E r \in Responses :
          /\ script' = Append(script, r)
          /\ out' = Call(inp.text, cfg, script')
    /\ UNCHANGED <<pc, inp, cfg, disk, orig, files, idx, attempts, failed, caught>>

\* translate returns to its caller, or an exception leaves it
TranslateReturn ==
    /\ pc = "translate"
    /\ out.kind \in {"return", "raise"}
    /\ pc' = "done"
    /\ UNCHANGED <<inp, out, cfg, script, disk, orig, files, idx, attempts, failed, caught>>

TranslateNext == TranslateRespond \/ TranslateReturn

SpecTranslate == TranslateInit /\ [][TranslateNext]_vars

\* the posts of a trace to one engine for one chunk, in order
PostsOf(trace, engine, ci) ==
    SelectSeq(trace, LAMBDA e : e.ev = "post" /\ e.engine = engine /\ e.chunk = ci)

\* the posts of a trace for one chunk, in order
PostsFor(trace, ci) == SelectSeq(trace, LAMBDA e : e.ev = "post" /\ e.chunk = ci)

IsSuccess(r) == r.st = 200 /\ r.body = "text"

\* the chunks translate split the text into (none for a blank text)
ChunksOf(text) == IF IsBlank(text) THEN <<>> ELSE split_for_api(text, ApiMaxChars)

\* Provider A is the first engine of the order and has its credential
OpenaiFirst == cfg.engine_order # <<>> /\ cfg.engine_order[1] = "openai" /\ cfg.openai_key

\* the text translate got for chunk ci: that of the last response for it
ChunkTranslation(trace, ci) == PostsFor(trace, ci)[Len(PostsFor(trace, ci))].resp.text

\* C6 as claimed: when Provider A, first in the fallback order, answers its
\* first two requests for a chunk with a retryable status, it is sent a third
\* request for that chunk, and when that one succeeds its text is the
\* translation of the chunk, after exactly two retries and with no request to
\* another provider.
C6_ThirdAttemptSucceeds ==
    (pc = "done" /\ OpenaiFirst) =>
        \A ci \in 1..Len(ChunksOf(inp.text)) :
            LET a == PostsOf(out.trace, "openai", ci)
            IN (Len(a) >= 2 /\ a[1].resp.st \in Retryable /\ a[2].resp.st \in Retryable) =>
                  /\ Len(a) >= 3
                  /\ IsSuccess(a[3].resp) =>
                        /\ Len(a) = 3
                        /\ PostsOf(out.trace, "deepl", ci) = <<>>
                        /\ ChunkTranslation(out.trace, ci) = a[3].resp.text

\* C6 as amended: when Provider A, first in the fallback order, answers its
\* first request for a chunk with a retryable status, it is sent exactly one
\* more request for that chunk (its attempt cap is 2), and when that second
\* one succeeds its text is the translation of the chunk, after exactly one
\* retry and with no request to another provider; with every chunk
\* translated, the result is the chunks' translations in order.
C6_SecondAttemptSucceeds ==
    (pc = "done" /\ OpenaiFirst) =>
        /\ \A ci \in 1..Len(ChunksOf(inp.text)) :
              LET a == PostsOf(out.trace, "openai", ci)
              IN (a # <<>> /\ a[1].resp.st \in Retryable) =>
                    /\ Len(a) = 2
                    /\ (IsSuccess(a[2].resp) =>
                          /\ PostsOf(out.trace, "deepl", ci) = <<>>
                          /\ PostsFor(out.trace, ci) = a
                          /\ ChunkTranslation(out.trace, ci) = a[2].resp.text
                          /\ out.failed # ci)
        /\ (out.kind = "return" /\ out.failed = 0 /\ ChunksOf(inp.text) # <<>>) =>
              out.val = Join([ci \in 1..Len(ChunksOf(inp.text)) |-> ChunkTranslation(out.trace, ci)])

\* a text of two chunks: Provider A answers 429 and then the text "j" for the
\* first and the text "k" at once for the second, and translate returns "jk"
C6_Witness ==
    /\ pc = "done"
    /\ OpenaiFirst
    /\ Len(ChunksOf(inp.text)) = 2
    /\ Len(script) = 3
    /\ script[1].st = 429
    /\ IsSuccess(script[2]) /\ script[2].text = <<"j">>
    /\ IsSuccess(script[3]) /\ script[3].text = <<"k">>
    /\ out.val = <<"j", "k">>
    /\ out.failed = 0

\* Provider A comes after Provider B in the order and has its credential
OpenaiAfterDeepl ==
    /\ cfg.openai_key
    /\ \E i, j \in 1..Len(cfg.engine_order) :
          i < j /\ cfg.engine_order[i] = "deepl" /\ cfg.engine_order[j] = "openai"

\* C10: when Provider B answers a request for a chunk with status 456, it is
\* sent no further request for that chunk and there is no wait: the very
\* next event is the request for the same chunk to the next provider of the
\* order, or, with no provider left, the failure of the chunk.  When it
\* answers with a retryable status and its attempt cap is not reached, the
\* wait is followed by another request to Provider B for the same chunk.
C10_QuotaFallsBackAtOnce ==
    pc = "done" =>
        \A i \in 1..Len(out.trace) :
            LET e == out.trace[i]
                earlier == Len(PostsOf(SubSeq(out.trace, 1, i - 1), "deepl", e.chunk))
            IN (e.ev = "post" /\ e.engine = "deepl") =>
                  /\ e.resp.st = 456 =>
                        /\ \A j \in (i + 1)..Len(out.trace) :
                              ~(out.trace[j].ev = "post" /\ out.trace[j].engine = "deepl"
                                    /\ out.trace[j].chunk = e.chunk)
                        /\ IF OpenaiAfterDeepl
                           THEN /\ i < Len(out.trace)
                                /\ out.trace[i + 1].ev = "post"
                                /\ out.trace[i + 1].engine = "openai"
                                /\ out.trace[i + 1].chunk = e.chunk
                           ELSE i = Len(out.trace) /\ out.failed = e.chunk
                  /\ (e.resp.st \in Retryable /\ earlier + 1 < DeeplAttempts) =>
                        /\ i + 2 <= Len(out.trace)
                        /\ out.trace[i + 1].ev = "sleep"
                        /\ out.trace[i + 2].ev = "post"
                        /\ out.trace[i + 2].engine = "deepl"
                        /\ out.trace[i + 2].chunk = e.chunk

\* Provider B answers 503 and, retried, 456; Provider A then translates the chunk
C10_Witness ==
    /\ pc = "done"
    /\ cfg.deepl_key
    /\ OpenaiAfterDeepl
    /\ Len(script) = 3
    /\ script[1].st = 503
    /\ script[2].st = 456
    /\ IsSuccess(script[3])
    /\ Len(out.trace) = 4
    /\ out.trace[3].engine = "deepl"
    /\ out.trace[4].engine = "openai"
    /\ out.val = script[3].text

-----------------------------------------------------------------------------
(* Specification of translate_json_value on one JSON value: one provider,   *)
(* which translates or fails each request                                   *)

MaxJsonLen == 2
JsonKeys == {<<"k">>, <<"i", "d">>}
Prose == <<"a", SP, "a">>
Ident == <<"a">>
JsonLeaves == {JStr(Prose), JStr(Ident), JOther(<<"1">>)}

\* the sequences over S of length 0..n
SeqsUpTo(S, n) == UNION {[1..k -> S] : k \in 0..n}

\* key lists of a dict: no key twice
KeyLists(n) == {ks \in SeqsUpTo(JsonKeys, n) : \A i, j \in 1..Len(ks) : i # j => ks[i] # ks[j]}

\* lists and dicts of leaves
JsonFlat ==
    {JArr(xs) : xs \in SeqsUpTo(JsonLeaves, MaxJsonLen)}
        \cup UNION {{JObj(ks, xs) : xs \in [1..Len(ks) -> JsonLeaves]} : ks \in KeyLists(MaxJsonLen)}

\* a dict whose member is a list of a String and of a list or a dict
JsonDeep ==
    {JObj(<<k>>, <<JArr(<<JStr(Prose), x>>)>>) :
        k \in JsonKeys,
        x \in {JArr(<<JStr(Prose)>>)} \cup {JObj(<<k2>>, <<JStr(Prose)>>) : k2 \in JsonKeys}}

\* leaves, flat containers, containers of a leaf and a flat container, and
\* the deeper dicts
JsonValues ==
    JsonLeaves \cup JsonFlat \cup JsonDeep
        \cup {JArr(<<x>>) : x \in JsonFlat}
        \cup {JArr(<<l, x>>) : l \in {JStr(Prose)}, x \in JsonFlat}
        \cup {JObj(<<k>>, <<x>>) : k \in JsonKeys, x \in JsonFlat}
        \cup {JObj(<<(<<"k">>), (<<"i", "d">>)>>, <<x, l>>) : l \in {JStr(Prose)}, x \in JsonFlat}

JsonPolicies ==
    {[mode |-> "include_except_ignored", ignore_keys |-> {<<"i", "d">>}, prefer_keys |-> {}, include_keys |-> {}],
     [mode |-> "include_except_ignored", ignore_keys |-> {<<"k">>}, prefer_keys |-> {<<"k">>}, include_keys |-> {}],
     [mode |-> "include_only", ignore_keys |-> {}, prefer_keys |-> {}, include_keys |-> {<<"k">>}],
     [mode |-> "include_only", ignore_keys |-> {<<"k">>}, prefer_keys |-> {<<"i", "d">>}, include_keys |-> {<<"k">>}]}

JsonResponses ==
    {[st |-> 200, body |-> "text", text |-> <<"j">>], [st |-> 404, body |-> "", text |-> <<>>]}

JsonCfg == [openai_key |-> TRUE, deepl_key |-> FALSE, engine_order |-> <<"openai", "deepl">>]

\* translate_json_value(obj, "", ...) replayed on the responses scr
JsonCall(v, cfg_json, glossary, scr) ==
    translate_json_value(v, <<>>, JsonCfg, cfg_json, glossary, scr, 0, <<>>)

JsonInit ==
    /\ pc = "walk"
    /\ inp \in [v : JsonValues, cfg_json : JsonPolicies, glossary : {<<[src |-> <<"j">>, dst |-> <<"X">>]>>}]
    /\ cfg = JsonCfg
    /\ script = <<>>
    /\ out = JsonCall(inp.v, inp.cfg_json, inp.glossary, script)
    /\ disk = <<>> /\ orig = <<>> /\ files = <<>> /\ idx = 0
    /\ attempts = <<>> /\ failed = {} /\ caught = {}

\* the provider answers the request the walk is blocked on
JsonRespond ==
    /\ pc = "walk"
    /\ out.kind = "wait"
    /\ \E r \in JsonResponses :
          /\ script' = Append(script, r)
          /\ out' = JsonCall(inp.v, inp.cfg_json, inp.glossary, script')
    /\ UNCHANGED <<pc, inp, cfg, disk, orig, files, idx, attempts, failed, caught>>

\* translate_json_value returns to translate_json_file
JsonReturn ==
    /\ pc = "walk"
    /\ out.kind = "return"
    /\ pc' = "done"
    /\ UNCHANGED <<inp, out, cfg, script, disk, orig, files, idx, attempts, failed, caught>>

JsonNext == JsonRespond \/ JsonReturn

SpecJson == JsonInit /\ [][JsonNext]_vars

RECURSIVE SameShape(_, _, _, _)
\* b has the shape of a, and a String of b differs from that of a only where
\* the policy P makes it eligible under the key it is decided with
SameShape(a, b, key, P) ==
    /\ b.t = a.t
    /\ b.keys = a.keys
    /\ Len(b.items) = Len(a.items)
    /\ a.t = "other" => b = a
    /\ a.t = "str" => (b.s # a.s => do_translate(key, a.s, P))
    /\ a.t # "str" => b.s = a.s
    /\ \A i \in 1..Len(a.items) :
          SameShape(a.items[i], b.items[i], IF a.t = "obj" THEN a.keys[i] ELSE key, P)

\* C3: translate_json_value returns a value of the same shape: the same
\* keys in the same order, the same array lengths and nesting, non-string
\* leaves unchanged, and a String leaf changed only if it was eligible under
\* the inclusion policy.
C3_JsonShapePreserved ==
    pc = "done" => SameShape(inp.v, out.val, <<>>, inp.cfg_json)

\* a dict of two members under an include_only policy: the member under the
\* included key was translated, the other one was left as it was
C3_Witness ==
    /\ pc = "done"
    /\ inp.v = JObj(<<(<<"i", "d">>), (<<"k">>)>>, <<JStr(Prose), JStr(Prose)>>)
    /\ inp.cfg_json.mode = "include_only"
    /\ inp.cfg_json.prefer_keys = {}
    /\ out.val = JObj(<<(<<"i", "d">>), (<<"k">>)>>, <<JStr(Prose), JStr(<<"X">>)>>)

-----------------------------------------------------------------------------
(* Specification of main(): the text files, then the JSON files, one after  *)
(* the other.  files[i] is the kind of the i-th document and i is its path. *)
(* Reading or writing a file may raise (the file system decides), and each  *)
(* provider translates or rejects each request.                             *)

MaxTextFiles == 2
MaxJsonFiles == 2
\* JSON files of the runs checked for completion
MaxFairJsonFiles == 1

Fence(str) == <<BT, BT, BT>> \o str \o <<BT, BT, BT>>

TextContents ==
    << TextFile(<<"b">> \o Fence(<<"a">>) \o <<"a">>),
       TextFile(<<"a">>),
       TextFile(<<"b", "b", NL, NL, "a", "a">>) >>

JsonContents ==
    << JsonFile("indent2", JObj(<<(<<"k">>), (<<"i", "d">>)>>, <<JStr(Prose \o Fence(<<"a">>)), JStr(Prose)>>)),
       JsonFile("invalid", JOther(<<>>)),
       JsonFile("compact", JArr(<<JStr(Prose), JOther(<<"1">>), JStr(Ident)>>)) >>

MainGlossary == <<[src |-> <<"a">>, dst |-> <<"X">>], [src |-> <<"j">>, dst |-> <<"J">>]>>
MainPolicy == [mode |-> "include_except_ignored", ignore_keys |-> {<<"i", "d">>}, prefer_keys |-> {}, include_keys |-> {}]
MainCfg == [openai_key |-> TRUE, deepl_key |-> TRUE, engine_order |-> <<"openai", "deepl">>]
MainResponses ==
    {[st |-> 200, body |-> "text", text |-> <<"j">>], [st |-> 404, body |-> "", text |-> <<>>]}

NoCall == [kind |-> "none", val |-> <<>>, n |-> 0, trace |-> <<>>, failed |-> FALSE]

\* n files whose contents are those of `contents` from the r-th on, in a round
Round(contents, n, r) == [i \in 1..n |-> contents[((i + r) % Len(contents)) + 1]]

MainInitWith(texts, jsons, glossary, nText, nJson) ==
    /\ pc = "next"
    /\ inp = [glossary |-> glossary, cfg_json |-> MainPolicy]
    /\ out = NoCall
    /\ cfg = MainCfg
    /\ script = <<>>
    /\ \E r \in 1..Len(texts), q \in 1..Len(jsons) :
          disk = Round(texts, nText, r) \o Round(jsons, nJson, q)
    /\ orig = disk
    /\ files = [i \in 1..(nText + nJson) |-> IF i <= nText THEN "text" ELSE "json"]
    /\ idx = 0
    /\ attempts = [i \in 1..(nText + nJson) |-> 0]
    /\ failed = {}
    /\ caught = {}

MainInit == MainInitWith(TextContents, JsonContents, MainGlossary, MaxTextFiles, MaxJsonFiles)

\* the call for the current document, replayed on the responses scr
DocCall(i, scr) == FileCall(files[i], disk[i], cfg, inp.cfg_json, inp.glossary, scr)

\* the loop takes the next document: read_text raises, or json.loads does,
\* or the translation runs up to its first request or to its end
MainStartDoc ==
    /\ pc = "next"
    /\ idx < Len(files)
    /\ idx' = idx + 1
    /\ attempts' = [attempts EXCEPT ![idx + 1] = @ + 1]
    /\ \E readable \in BOOLEAN :
          LET Caught(at) == /\ pc' = AfterDocException
                            /\ out' = NoCall
                            /\ caught' = caught \cup {[doc |-> idx + 1, at |-> at]}
              With(call) == IF ~readable THEN Caught("read")
                            ELSE IF call.kind = "raise" THEN Caught("parse")
                            ELSE pc' = "doc" /\ out' = call /\ caught' = caught
          IN \E call \in {DocCall(idx + 1, <<>>)} : With(call)
    /\ UNCHANGED <<inp, cfg, script, disk, orig, files, failed>>

\* a provider answers the request the translation of the document is blocked on
MainRespond ==
    /\ pc = "doc"
    /\ out.kind = "wait"
    /\ \E r \in MainResponses :
          LET With(call) ==
                  IF call.kind = "raise"
                  THEN /\ pc' = AfterDocException
                       /\ caught' = caught \cup {[doc |-> idx, at |-> "translate"]}
                       /\ out' = NoCall
                       /\ script' = <<>>
                  ELSE /\ pc' = pc
                       /\ caught' = caught
                       /\ out' = call
                       /\ script' = Append(script, r)
          IN \E call \in {DocCall(idx, Append(script, r))} : With(call)
    /\ UNCHANGED <<inp, cfg, disk, orig, files, idx, attempts, failed>>

\* write_text(p, ...): the file is replaced, or the write raises
MainWrite ==
    /\ pc = "doc"
    /\ out.kind = "return"
    /\ \E writable \in BOOLEAN :
          IF writable
          THEN disk' = [disk EXCEPT ![idx] = out.val] /\ pc' = "next" /\ caught' = caught
          ELSE /\ disk' = disk
               /\ pc' = AfterDocException
               /\ caught' = caught \cup {[doc |-> idx, at |-> "write"]}
    /\ failed' = IF out.failed THEN failed \cup {idx} ELSE failed
    /\ out' = NoCall
    /\ script' = <<>>
    /\ UNCHANGED <<inp, cfg, orig, files, idx, attempts>>

\* print("All translation tasks completed!")
MainFinish ==
    /\ pc = "next"
    /\ idx = Len(files)
    /\ pc' = "done"
    /\ UNCHANGED <<inp, out, cfg, script, disk, orig, files, idx, attempts, failed, caught>>

MainNext == MainStartDoc \/ MainRespond \/ MainWrite \/ MainFinish

SpecMain == MainInit /\ [][MainNext]_vars

ShortTextContents == <<TextFile(<<"a">>), TextFile(<<"b", SP, "a">>)>>

ShortJsonContents ==
    << JsonFile("invalid", JOther(<<>>)),
       JsonFile("compact", JObj(<<(<<"k">>)>>, <<JStr(Prose)>>)) >>

ShortGlossary == <<[src |-> <<"a">>, dst |-> <<"X">>]>>

\* main() on short documents and a glossary of one term; the program keeps
\* running and every request is answered or times out (timeout=60)
SpecMainFair ==
    /\ MainInitWith(ShortTextContents, ShortJsonContents, ShortGlossary, MaxTextFiles, MaxFairJsonFiles)
    /\ [][MainNext]_vars
    /\ WF_vars(MainNext)

\* the documents main() is through with
Handled == {i \in 1..Len(files) : i < idx \/ (i = idx /\ pc \in {"next", "done"})}

\* C1: a document during whose handling some chunk lost every provider has,
\* once the driver is through with it, the content on disk it had before the
\* run; (the driver then goes on with the next document).
C1_FailedDocumentUnchanged ==
    \A i \in Handled \cap failed : disk[i] = orig[i]

\* C8: a failure while a document is processed is caught, and every later
\* document of the text list and of the JSON list is still attempted: no
\* document is attempted twice, at the completion message every selected
\* document has been attempted exactly once, and the run reaches that message.
C8_EachAttemptedOnceAndCompletes ==
    /\ [](\A i \in 1..Len(files) : attempts[i] <= 1)
    /\ [](pc = "done" => \A i \in 1..Len(files) : attempts[i] = 1)
    /\ <>(pc = "done")

\* the run completes although the first document raised and a later one lost
\* every provider for a chunk
C8_Witness ==
    /\ pc = "done"
    /\ \E e \in caught : e.doc = 1
    /\ \E i \in failed : i > 1
    /\ \A i \in 1..Len(files) : attempts[i] = 1

-----------------------------------------------------------------------------
(* Specification of one call of translate_plain_file or translate_json_file *)
(* on a text put together from prose, fenced code and stray fences, as a    *)
(* text file or as the string of a JSON member.                             *)

MaxPieces == 3

FilePieces ==
    {<<"a">>, <<SP>>, Fence(<<"a">>), <<TL, TL, TL, "a", TL, TL, TL>>, <<BT, BT, BT>>}

RECURSIVE PieceTexts(_)
PieceTexts(n) ==
    IF n = 0 THEN {<<>>}
    ELSE LET shorter == PieceTexts(n - 1)
         IN shorter \cup {t \o p : t \in shorter, p \in FilePieces}

FileContents ==
    {TextFile(t) : t \in PieceTexts(MaxPieces)}
    \cup {JsonFile("compact", JObj(<<(<<"k">>)>>, <<JStr(t)>>)) : t \in PieceTexts(MaxPieces)}

FileKind(content) == IF content.fmt = "text" THEN "text" ELSE "json"

FileInit ==
    /\ pc = "call"
    /\ inp \in [content : FileContents, glossary : {MainGlossary}, cfg_json : {MainPolicy}]
    /\ cfg = MainCfg
    /\ script = <<>>
    /\ out = FileCall(FileKind(inp.content), inp.content, cfg, inp.cfg_json, inp.glossary, <<>>)
    /\ disk = <<>> /\ orig = <<>> /\ files = <<>> /\ idx = 0
    /\ attempts = <<>> /\ failed = {} /\ caught = {}

FileRespond ==
    /\ pc = "call"
    /\ out.kind = "wait"
    /\ \E r \in MainResponses :
          /\ script' = Append(script, r)
          /\ out' = FileCall(FileKind(inp.content), inp.content, cfg, inp.cfg_json, inp.glossary, script')
    /\ UNCHANGED <<pc, inp, cfg, disk, orig, files, idx, attempts, failed, caught>>

FileReturn ==
    /\ pc = "call"
    /\ out.kind = "return"
    /\ pc' = "done"
    /\ UNCHANGED <<inp, out, cfg, script, disk, orig, files, idx, attempts, failed, caught>>

FileNext == FileRespond \/ FileReturn

SpecFile == FileInit /\ [][FileNext]_vars

\* the fenced code spans the segmenter finds in s, in order
CodeSpans(s) ==
    LET segs == chunk_code_blocks(s)
        code == SelectSeq(segs, LAMBDA seg : seg.kind = "code")
    IN [i \in 1..Len(code) |-> code[i].s]

RECURSIVE EmbedsInOrder(_, _, _)
\* the strings spans occur in s from position `from` on, one after the other
EmbedsInOrder(s, from, spans) ==
    IF spans = <<>> THEN TRUE
    ELSE LET at == Find(s, Head(spans), from)
         IN at # 0 /\ EmbedsInOrder(s, at + Len(Head(spans)), Tail(spans))

RECURSIVE JsonCodeKept(_, _)
\* every string of the JSON value b holds the code spans of the string of a
\* it stands for
JsonCodeKept(a, b) ==
    IF a.t = "str" THEN b.t = "str" /\ EmbedsInOrder(b.s, 1, CodeSpans(a.s))
    ELSE /\ Len(a.items) = Len(b.items)
         /\ \A i \in 1..Len(a.items) : JsonCodeKept(a.items[i], b.items[i])

\* C2: every fenced code span the segmenter finds in the input is in the
\* output of translate_plain_file, and in the output string of every JSON
\* leaf, unchanged and in the same order, and no text sent to a provider
\* holds a fenced code span.
C2_CodeSpansKept ==
    /\ \A k \in 1..Len(out.trace) :
          out.trace[k].ev = "post" => CodeSpans(out.trace[k].text) = <<>>
    /\ pc = "done" =>
          IF inp.content.fmt = "text"
          THEN EmbedsInOrder(out.val.data, 1, CodeSpans(inp.content.data))
          ELSE JsonCodeKept(inp.content.data, out.val.data)

\* a text file with two code spans around prose that a provider translated
C2_Witness ==
    /\ pc = "done"
    /\ inp.content.fmt = "text"
    /\ Len(CodeSpans(inp.content.data)) = 2
    /\ CodeSpans(inp.content.data)[1] # CodeSpans(inp.content.data)[2]
    /\ \E k \in 1..Len(out.trace) : out.trace[k].ev = "post" /\ out.trace[k].resp.st = 200
    /\ out.val.data # inp.content.data

\* the responses of the posts of the call in progress
Answers == {out.trace[k].resp : k \in {j \in 1..Len(out.trace) : out.trace[j].ev = "post"}}

\* C11: the glossary is applied only to text a provider translated: when no
\* provider translated anything (every request failed, or none was made), the
\* content reaches the output unchanged.
C11_UntranslatedUnchanged ==
    (pc = "done" /\ \A r \in Answers : r.st # 200) => out.val.data = inp.content.data

\* the credential of engine e is in the environment
HasCredential(e) == (e = "openai" /\ cfg.openai_key) \/ (e = "deepl" /\ cfg.deepl_key)

\* the engines of the fallback order whose credential is present, in order
Credentialed == SelectSeq(cfg.engine_order, HasCredential)

\* C12: a provider of the fallback order whose credential is absent is never
\* sent a request and raises nothing (an exception leaves translate only
\* after a provider answered with a translation that is not a string): the
\* requests for a chunk start with the first provider of the order that has
\* a credential; with no credential in the order the first chunk fails with
\* no request at all and translate returns the text as it was.
C12_AbsentCredentialSkipped ==
    pc \in {"translate", "done"} =>
        /\ out.kind \in {"wait", "return", "raise"}
        /\ out.kind = "raise" => \E r \in Answers : r.body = "other"
        /\ \A i \in 1..Len(out.trace) :
              out.trace[i].ev = "post" => HasCredential(out.trace[i].engine)
        /\ \A ci \in 1..Len(ChunksOf(inp.text)) :
              PostsFor(out.trace, ci) # <<>> =>
                  /\ Credentialed # <<>>
                  /\ PostsFor(out.trace, ci)[1].engine = Credentialed[1]
        /\ (Credentialed # <<>> /\ ChunksOf(inp.text) # <<>> /\ script = <<>>) => out.kind = "wait"
        /\ (Credentialed = <<>> /\ ChunksOf(inp.text) # <<>>) =>
              /\ out.kind = "return"
              /\ out.failed = 1
              /\ out.trace = <<>>
              /\ out.val = inp.text

\* Provider A is first in the order and has no credential: the only request
\* goes to Provider B, which translates the chunk
C12_Witness ==
    /\ pc = "done"
    /\ cfg.engine_order = <<"openai", "deepl">>
    /\ ~cfg.openai_key /\ cfg.deepl_key
    /\ Len(out.trace) = 1
    /\ out.trace[1].engine = "deepl"
    /\ IsSuccess(out.trace[1].resp)
    /\ out.failed = 0
    /\ out.val = out.trace[1].resp.text

\* the JSON documents whose content json.loads rejects
Unparsable == {i \in 1..Len(files) : files[i] = "json" /\ orig[i].fmt = "invalid"}

\* C13: a JSON document whose content fails to parse is skipped: its file is
\* never written, no provider request is made while it is the current
\* document, the failure is caught, and the driver is back at the head of its
\* loop for the next document.
C13_UnparsableJsonSkipped ==
    \A i \in Unparsable :
        /\ disk[i] = orig[i]
        /\ idx = i =>
              /\ pc \in {"next", "done"}
              /\ out = NoCall /\ script = <<>>
              /\ \E e \in caught : e.doc = i /\ e.at \in {"read", "parse"}
        /\ [doc |-> i, at |-> "write"] \notin caught

\* an unparsable JSON document was skipped at json.loads and the JSON
\* document after it has been translated and written
C13_Witness ==
    /\ pc = "done"
    /\ \E i \in Unparsable :
          /\ [doc |-> i, at |-> "parse"] \in caught
          /\ i < Len(files)
          /\ disk[i + 1] # orig[i + 1]
          /\ \A e \in caught : e.doc # i + 1

AttemptCap(e) == IF e = "openai" THEN OpenaiAttempts ELSE DeeplAttempts

\* the provider raised on a request
IsFailure(r) == r.st = 0 \/ IsHttpError(r) \/ r.body = "malformed"

\* the requests posts, all to engine e for one chunk, end with e giving up:
\* on a failure that is not retried, or on a retryable status at the cap
GaveUp(posts, e) ==
    /\ posts # <<>>
    /\ IsFailure(posts[Len(posts)].resp)
    /\ posts[Len(posts)].resp.st \in Retryable => Len(posts) = AttemptCap(e)

\* the position of engine e in the credentialed part of the fallback order
Rank(e) == CHOOSE k \in 1..Len(Credentialed) : Credentialed[k] = e

\* C14: translate makes a bounded number of requests: for each chunk every
\* credentialed provider gets at most its attempt cap of requests, and the
\* call has returned once every provider has had its cap for every chunk; a
\* provider that answers every attempt with a retryable status gets exactly
\* its cap, and then the next credentialed provider is tried (or, with none
\* left, the chunk fails); and a provider is sent a request for a chunk only
\* after every credentialed provider before it in the order gave up on that
\* chunk.
C14_BoundedAttemptsInOrder ==
    pc \in {"translate", "done"} =>
        /\ \A ci \in 1..Len(ChunksOf(inp.text)) :
              \A k \in 1..Len(Credentialed) :
                  Len(PostsOf(out.trace, Credentialed[k], ci)) <= AttemptCap(Credentialed[k])
        /\ out.kind = "wait" =>
              Len(script) < Len(ChunksOf(inp.text)) * (OpenaiAttempts + DeeplAttempts)
        /\ \A i \in 1..Len(out.trace) :
              LET e == out.trace[i]
                  before == SubSeq(out.trace, 1, i - 1)
              IN e.ev = "post" =>
                    \A k \in 1..(Rank(e.engine) - 1) :
                        GaveUp(PostsOf(before, Credentialed[k], e.chunk), Credentialed[k])
        /\ pc = "done" =>
              \A ci \in 1..Len(ChunksOf(inp.text)) :
                  \A k \in 1..Len(Credentialed) :
                      LET a == PostsOf(out.trace, Credentialed[k], ci)
                      IN (a # <<>> /\ \A j \in 1..Len(a) : a[j].resp.st \in Retryable) =>
                            /\ Len(a) = AttemptCap(Credentialed[k])
                            /\ IF k < Len(Credentialed)
                               THEN PostsOf(out.trace, Credentialed[k + 1], ci) # <<>>
                               ELSE out.failed = ci

\* Provider A answers 429 and 503 to its two attempts and is abandoned;
\* Provider B answers 503 and then translates the chunk
C14_Witness ==
    /\ pc = "done"
    /\ Credentialed = <<"openai", "deepl">>
    /\ Len(script) = 4
    /\ script[1].st = 429 /\ script[2].st = 503 /\ script[3].st = 503
    /\ IsSuccess(script[4])
    /\ Len(PostsOf(out.trace, "openai", 1)) = 2
    /\ Len(PostsOf(out.trace, "deepl", 1)) = 2
    /\ out.failed = 0
    /\ out.val = script[4].text

\* the paragraphs of a text, each as the loop of split_for_api buffers it
Paragraphs(text) ==
    LET paras == SplitOn(text, <<NL, NL>>)
    IN [i \in 1..Len(paras) |-> paras[i] \o <<NL, NL>>]

RECURSIVE GroupSizes(_, _)
\* how many of the paragraphs items, taken in order, make up each of the
\* chunks; a 0 when a chunk is not a run of whole paragraphs in order, or
\* when paragraphs are left over
GroupSizes(items, chunks) ==
    IF chunks = <<>> THEN (IF items = <<>> THEN <<>> ELSE <<0>>)
    ELSE LET fit == {k \in 1..Len(items) : Join(SubSeq(items, 1, k)) = Head(chunks)}
         IN IF fit = {} THEN <<0>>
            ELSE LET k == CHOOSE x \in fit : TRUE
                 IN <<k>> \o GroupSizes(SubSeq(items, k + 1, Len(items)), Tail(chunks))

\* the number of paragraphs in the chunks before chunk j
Before(sizes, j) == IF j = 1 THEN 0 ELSE Len(Join([i \in 1..(j - 1) |-> [x \in 1..sizes[i] |-> 0]]))

\* C15: a text within the limit is returned unchanged as the only chunk;
\* otherwise the chunks are the paragraphs in their order, each chunk one or
\* more whole paragraphs; a chunk of more than one paragraph is at most
\* max_chars long, a chunk longer than max_chars is exactly one paragraph,
\* no chunk is empty, and a chunk is closed only when the next paragraph
\* would not fit in it.
C15_GreedyChunks ==
    pc = "done" =>
        IF Len(inp.text) <= inp.max_chars THEN out = <<inp.text>>
        ELSE LET items == Paragraphs(inp.text)
                 sizes == GroupSizes(items, out)
             IN /\ \A j \in 1..Len(sizes) : sizes[j] # 0
                /\ Len(sizes) = Len(out)
                /\ \A j \in 1..Len(out) :
                      /\ out[j] # <<>>
                      /\ sizes[j] > 1 => Len(out[j]) <= inp.max_chars
                      /\ Len(out[j]) > inp.max_chars => sizes[j] = 1
                      /\ j < Len(out) =>
                            Len(out[j]) + Len(items[Before(sizes, j + 1) + 1]) > inp.max_chars

\* two empty paragraphs fill the first chunk, and the last paragraph, longer
\* than the limit on its own, is the second chunk
C15_Witness ==
    /\ pc = "done"
    /\ inp.text = <<NL, NL, NL, NL, "a", NL>>
    /\ inp.max_chars = 4
    /\ out = << <<NL, NL, NL, NL>>, <<"a", NL, NL, NL>> >>
    /\ GroupSizes(Paragraphs(inp.text), out) = <<2, 1>>

-----------------------------------------------------------------------------
(* Specification of chunk_code_blocks on every text within the bounds and   *)
(* on the texts put together from pieces                                    *)

MaxSegLen == 7
SegAlphabet == {"a", BT, TL}

SegInit ==
    /\ pc = "call"
    /\ inp \in [text : Strs(SegAlphabet, MaxSegLen) \cup PieceTexts(MaxPieces)]
    /\ out = <<>>
    /\ IdleMain

SegCall ==
    /\ pc = "call"
    /\ out' = chunk_code_blocks(inp.text)
    /\ pc' = "done"
    /\ UNCHANGED <<inp, mainVars>>

SpecSeg == SegInit /\ [][SegCall]_vars

\* a marker at p in s with the same marker again after it
ClosedMarkerAt(s, p) ==
    \E f \in Fences : StartsAt(s, f, p) /\ \E q \in (p + 3)..Len(s) : StartsAt(s, f, q)

\* C16: the segments of chunk_code_blocks, concatenated in order, are the
\* input; no text segment is empty; a code segment starts with a marker of
\* three characters and ends with the nearest occurrence of the same marker
\* after it; and a text in which no marker has the same marker after it has
\* no code segment: it is one text segment.
C16_SegmentsPartitionText ==
    pc = "done" =>
        /\ Join([i \in 1..Len(out) |-> out[i].s]) = inp.text
        /\ \A i \in 1..Len(out) :
              /\ out[i].kind \in {"text", "code"}
              /\ out[i].kind = "text" => out[i].s # <<>>
              /\ out[i].kind = "code" =>
                    /\ Len(out[i].s) >= 6
                    /\ SubSeq(out[i].s, 1, 3) \in Fences
                    /\ Find(out[i].s, SubSeq(out[i].s, 1, 3), 4) = Len(out[i].s) - 2
        /\ (inp.text # <<>> /\ \A p \in 1..Len(inp.text) : ~ClosedMarkerAt(inp.text, p)) =>
              out = <<[kind |-> "text", s |-> inp.text]>>

\* a backtick marker that is never closed stays in the text segment before
\* the tilde fence
C16_Witness ==
    /\ pc = "done"
    /\ inp.text = <<BT, BT, BT, "a", TL, TL, TL, "a", TL, TL, TL>>
    /\ out = <<[kind |-> "text", s |-> <<BT, BT, BT, "a">>],
               [kind |-> "code", s |-> <<TL, TL, TL, "a", TL, TL, TL>>]>>

-----------------------------------------------------------------------------
(* Specification of translate_plain_file on documents of several spans and  *)
(* several chunks, whose chunks all differ, with provider answers that tell *)
(* one translation from another                                             *)

MaxOrderPieces == 3

OrderPieces ==
    {<<"a", "a", NL, NL, "b", "b">>, Fence(<<"a">>), <<"c">>, <<TL, TL, TL, "a", TL, TL, TL>>}

\* the documents made of different pieces, each at most once
OrderDocs ==
    {Join(o) : o \in {q \in Strs(OrderPieces, MaxOrderPieces) :
                         \A i, j \in 1..Len(q) : i # j => q[i] # q[j]}}

OrderResponses ==
    {[st |-> 200, body |-> "text", text |-> <<"j">>],
     [st |-> 200, body |-> "text", text |-> <<"k">>],
     [st |-> 404, body |-> "", text |-> <<>>]}

OrderCall(scr) == FileCall("text", inp.content, cfg, inp.cfg_json, inp.glossary, scr)

OrderInit ==
    /\ pc = "call"
    /\ inp \in [content : {TextFile(d) : d \in OrderDocs}, glossary : {<<>>, MainGlossary},
                cfg_json : {MainPolicy}]
    /\ cfg = MainCfg
    /\ script = <<>>
    /\ out = OrderCall(<<>>)
    /\ disk = <<>> /\ orig = <<>> /\ files = <<>> /\ idx = 0
    /\ attempts = <<>> /\ failed = {} /\ caught = {}

OrderRespond ==
    /\ pc = "call"
    /\ out.kind = "wait"
    /\ \E r \in OrderResponses :
          /\ script' = Append(script, r)
          /\ out' = OrderCall(script')
    /\ UNCHANGED <<pc, inp, cfg, disk, orig, files, idx, attempts, failed, caught>>

OrderReturn ==
    /\ pc = "call"
    /\ out.kind = "return"
    /\ pc' = "done"
    /\ UNCHANGED <<inp, out, cfg, script, disk, orig, files, idx, attempts, failed, caught>>

OrderNext == OrderRespond \/ OrderReturn

SpecOrder == OrderInit /\ [][OrderNext]_vars

RECURSIVE UnitsFrom(_, _)
\* the chunks of the document from segment i on, in submission order: each
\* with its segment, its number within the span and its text
UnitsFrom(segs, i) ==
    IF i > Len(segs) THEN <<>>
    ELSE LET ch == IF segs[i].kind = "code" THEN <<>> ELSE ChunksOf(segs[i].s)
         IN [k \in 1..Len(ch) |-> [seg |-> i, chunk |-> k, text |-> ch[k]]] \o UnitsFrom(segs, i + 1)

\* the requests of a trace, in the order they were issued
Requests(trace) == SelectSeq(trace, LAMBDA e : e.ev = "post")

\* the place in units of the chunk the request e is for (0: none)
UnitOf(units, e) ==
    LET us == {u \in 1..Len(units) : units[u].chunk = e.chunk /\ units[u].text = e.text}
    IN IF us = {} THEN 0 ELSE CHOOSE u \in us : TRUE

\* the requests for the u-th chunk that were answered with a translation
Successes(units, reqs, u) ==
    SelectSeq(reqs, LAMBDA e : UnitOf(units, e) = u /\ IsSuccess(e.resp))

\* what the document has in place of segment i once it was handled: the
\* segment itself for code; for text the translations of its chunks in chunk
\* order, or the segment when a chunk has none; then the glossary over it
PartInOrder(segs, units, reqs, glossary, i) ==
    LET mine == {u \in 1..Len(units) : units[u].seg = i}
        first == CHOOSE u \in mine : \A v \in mine : u <= v
        done == \A u \in mine : Successes(units, reqs, u) # <<>>
    IN IF segs[i].kind = "code" THEN segs[i].s
       ELSE IF mine = {} \/ ~done THEN apply_glossary(segs[i].s, glossary)
       ELSE apply_glossary(Join([k \in 1..Cardinality(mine) |->
                                    Successes(units, reqs, first + k - 1)[1].resp.text]), glossary)

\* C17: within one document the provider requests are issued in submission
\* order: every request is for a chunk of the document, no request is for a
\* chunk that comes before the chunk of an earlier request, and a request
\* for a chunk is issued only after every earlier chunk of the same span has
\* its translation; the text written has, segment by segment in segment
\* order, the code segment or the translations of the span's chunks in chunk
\* order.
C17_RequestsInSubmissionOrder ==
    LET segs == chunk_code_blocks(inp.content.data)
        units == UnitsFrom(segs, 1)
        reqs == Requests(out.trace)
    IN /\ \A j \in 1..Len(reqs) : UnitOf(units, reqs[j]) # 0
       /\ \A j \in 1..(Len(reqs) - 1) : UnitOf(units, reqs[j]) <= UnitOf(units, reqs[j + 1])
       /\ \A j \in 1..Len(reqs) :
             \A v \in 1..(UnitOf(units, reqs[j]) - 1) :
                 units[v].seg = units[UnitOf(units, reqs[j])].seg =>
                     Successes(units, SubSeq(reqs, 1, j - 1), v) # <<>>
       /\ pc = "done" =>
             out.val.data = Join([i \in 1..Len(segs) |->
                                     PartInOrder(segs, units, reqs, inp.glossary, i)])

\* a span of two chunks translated to "j" and "k", a fence, and a second
\* span translated after them
C17_Witness ==
    /\ pc = "done"
    /\ inp.glossary = <<>>
    /\ inp.content.data = <<"a", "a", NL, NL, "b", "b">> \o Fence(<<"a">>) \o <<"c">>
    /\ Len(script) = 4
    /\ script[1].text = <<"j">>
    /\ script[2].st = 404
    /\ script[3].text = <<"k">>
    /\ script[4].text = <<"j">>
    /\ out.val.data = <<"j", "k">> \o Fence(<<"a">>) \o <<"j">>

\* C18: provider-level errors stay inside translate: whatever the providers
\* answer (a retryable status, an unrecoverable status, another HTTP error, a
\* malformed body, a network exception), translate returns a string and no
\* exception leaves it.
C18_TranslateNeverRaises ==
    pc = "done" => out.kind = "return" /\ out.val # NotAStr

\* chunk ci has a translation: its last request was answered with a value
\* that is not None
Translated(trace, ci) ==
    /\ PostsFor(trace, ci) # <<>>
    /\ LET last == PostsFor(trace, ci)[Len(PostsFor(trace, ci))].resp
       IN last.st = 200 /\ last.body \in {"text", "other"}

\* C19: translate is all-or-nothing for a span: what it returns is either the
\* translations of all the chunks of the span, concatenated in chunk order,
\* or the span as it was; when a chunk has no translation after the chunks
\* before it had theirs, no request is issued for a chunk after it and the
\* span is returned as it was, with no translated chunk in it.
C19_AllOrNothing ==
    (pc = "done" /\ out.kind = "return") =>
        LET chunks == ChunksOf(inp.text)
            untranslated == {ci \in 1..Len(chunks) : ~Translated(out.trace, ci)}
        IN IF chunks # <<>> /\ untranslated = {}
           THEN out.val = Join([ci \in 1..Len(chunks) |-> ChunkTranslation(out.trace, ci)])
           ELSE /\ out.val = inp.text
                /\ \A k \in untranslated : \A ci \in (k + 1)..Len(chunks) :
                       PostsFor(out.trace, ci) = <<>>
                /\ \A k \in untranslated :
                       (\A ci \in 1..(k - 1) : Translated(out.trace, ci)) =>
                           \A e \in 1..Len(out.trace) : out.trace[e].chunk <= k

\* the first chunk of two is translated to "j", the second loses both
\* providers: the span comes back as it was
C19_Witness ==
    /\ pc = "done"
    /\ out.kind = "return"
    /\ Len(ChunksOf(inp.text)) = 2
    /\ Len(script) = 3
    /\ IsSuccess(script[1]) /\ script[1].text = <<"j">>
    /\ script[2].st = 404
    /\ script[3].st = 404
    /\ Translated(out.trace, 1)
    /\ PostsFor(out.trace, 2) # <<>>
    /\ out.val = inp.text

RECURSIVE EligibleLeaves(_, _, _)
RECURSIVE EligibleFrom(_, _, _, _)
\* the Strings of v that the policy P makes eligible, in document order,
\* when an element of an array is decided with the key the array is stored
\* under and a member of an object with its own key
EligibleLeaves(v, key, P) ==
    IF v.t = "str" THEN (IF do_translate(key, v.s, P) THEN <<v.s>> ELSE <<>>)
    ELSE IF v.t = "other" THEN <<>>
    ELSE EligibleFrom(v, 1, key, P)

EligibleFrom(v, i, key, P) ==
    IF i > Len(v.items) THEN <<>>
    ELSE EligibleLeaves(v.items[i], IF v.t = "arr" THEN key ELSE v.keys[i], P)
             \o EligibleFrom(v, i + 1, key, P)

\* C20: the JSON walker decides a String that is an element of an array with
\* the key the array is stored under, through nested arrays, and with the
\* empty key for an array at the root; it decides a String that is a member
\* of an object with the member's own key only: the texts sent to the
\* provider are the Strings eligible under that rule, one request each, in
\* document order, and no other String is changed.
C20_ArrayElementsUseArrayKey ==
    pc = "done" =>
        /\ [j \in 1..Len(Requests(out.trace)) |-> Requests(out.trace)[j].text]
               = EligibleLeaves(inp.v, <<>>, inp.cfg_json)
        /\ (EligibleLeaves(inp.v, <<>>, inp.cfg_json) = <<>>) => out.val = inp.v

\* under the ignored key "id" a list of a String and of a dict with the
\* member "k": the element of the list is left alone, the member of the
\* nested dict is translated
C20_Witness ==
    /\ pc = "done"
    /\ inp.cfg_json.mode = "include_except_ignored"
    /\ inp.cfg_json.ignore_keys = {<<"i", "d">>}
    /\ inp.v = JObj(<<(<<"i", "d">>)>>, <<JArr(<<JStr(Prose), JObj(<<(<<"k">>)>>, <<JStr(Prose)>>)>>)>>)
    /\ Len(script) = 1
    /\ script[1].st = 200
    /\ out.val = JObj(<<(<<"i", "d">>)>>, <<JArr(<<JStr(Prose), JObj(<<(<<"k">>)>>, <<JStr(<<"X">>)>>)>>)>>)

====
